---- MODULE Spec2Model ----
(***************************************************************************)
(* A model of transmissionscripts/__init__.py: the rule matcher            *)
(* (find_rule_set over CONFIG['RULES']), the retirement executor           *)
(* (remove_torrent) and the three removal passes (remove_unknown_torrents, *)
(* remove_local_errors, clean_min_time_ratio) run against a Transmission   *)
(* RPC client.                                                             *)
(*                                                                         *)
(* Python strings are sequences of one-character strings, so that          *)
(* str.lower() and the substring test `a in b` are computed, not assumed.  *)
(* Ratios (Python floats with one decimal) are integers counting tenths:   *)
(* 2.0 is 20, 1.0 is 10.                                                   *)
(***************************************************************************)
EXTENDS Integers, Sequences, FiniteSets, TLC

VARIABLES
    CONFIG,        \* the module global CONFIG: [CLIENT, RULES]; RULES in dict iteration order
    rules_arg,     \* CONFIG['RULES'] as the last direct find_rule_set call read it
    trackers_arg,  \* the argument of that call
    rule_set,      \* what that call returned or raised
    client,        \* the daemon's torrents, in get_torrents() order
    op,            \* the top-level function running or last run
    pc,            \* "idle" | "loop" | "done" | "raised"
    snapshot,      \* the list client.get_torrents() returned to op
    idx,           \* position of op's for-loop in snapshot
    calls,         \* the RPC calls op has issued, in order, with the client's answers
    out,           \* the lines op has printed
    exc,           \* the exception that left op, or "none"
    dry_run_arg    \* dry_run of the last direct remove_torrent call

vars == <<CONFIG, rules_arg, trackers_arg, rule_set, client, op, pc, snapshot, idx, calls, out,
          exc, dry_run_arg>>

rule_vars == <<CONFIG, rules_arg, trackers_arg, rule_set>>
sweep_vars == <<client, op, pc, snapshot, idx, calls, out, exc, dry_run_arg>>

----------------------------------------------------------------------------
(* Python str *)

UpperCase == <<"A", "B", "C", "D", "E", "F", "G", "H", "I", "J", "K", "L", "M",
               "N", "O", "P", "Q", "R", "S", "T", "U", "V", "W", "X", "Y", "Z">>
LowerCase == <<"a", "b", "c", "d", "e", "f", "g", "h", "i", "j", "k", "l", "m",
               "n", "o", "p", "q", "r", "s", "t", "u", "v", "w", "x", "y", "z">>

lower_char(c) ==
    IF \E i \in DOMAIN UpperCase : UpperCase[i] = c
    THEN LowerCase[CHOOSE i \in DOMAIN UpperCase : UpperCase[i] = c]
    ELSE c

\* str.lower()
lower(s) == [i \in DOMAIN s |-> lower_char(s[i])]

\* sub in s
str_in(sub, s) ==
    \E i \in 0..(Len(s) - Len(sub)) : SubSeq(s, i + 1, i + Len(sub)) = sub

----------------------------------------------------------------------------
(* Module constants *)

REMOTE_MESSAGES ==
    { <<"u", "n", "r", "e", "g", "i", "s", "t", "e", "r", "e", "d", " ",
        "t", "o", "r", "r", "e", "n", "t">> }

LOCAL_ERRORS ==
    { <<"n", "o", " ", "d", "a", "t", "a", " ", "f", "o", "u", "n", "d">> }

\* SEED_TIME_BUFFER = 1.1, in tenths
SEED_TIME_BUFFER == 11

\* int(seconds * SEED_TIME_BUFFER)
buffered(seconds) == (seconds * SEED_TIME_BUFFER) \div 10

RULES_DEFAULT == <<"D", "E", "F", "A", "U", "L", "T">>

KeyApollo == <<"a", "p", "o", "l", "l", "o", ".", "r", "i", "p", "/">>
KeyLandof == <<"l", "a", "n", "d", "o", "f", ".", "t", "v", "/">>

\* CONFIG['RULES'] as written in the module, in declaration order
BuiltinRules ==
    << [key |-> KeyApollo,     min_time |-> buffered(3600 * 24 * 30), max_ratio |-> 20],
       [key |-> KeyLandof,     min_time |-> buffered(3600 * 120),     max_ratio |-> 10],
       [key |-> RULES_DEFAULT, min_time |-> buffered(3600 * 240),     max_ratio |-> 20] >>

BuiltinConfig == [RULES |-> BuiltinRules]

----------------------------------------------------------------------------
(* find_rule_set *)

NoRule == [min_time |-> -1, max_ratio |-> -1]

\* CONFIG['RULES'][key]: the value stored under key, KeyError when there is none
rules_getitem(rules, key) ==
    IF \E i \in DOMAIN rules : rules[i].key = key
    THEN LET i == CHOOSE j \in DOMAIN rules : rules[j].key = key
         IN [exc |-> "none",
             rule |-> [min_time |-> rules[i].min_time, max_ratio |-> rules[i].max_ratio]]
    ELSE [exc |-> "KeyError", rule |-> NoRule]

\* key_matches without the .lower()
key_matches_case_sensitive(key, trackers) ==
    \E n \in DOMAIN trackers : str_in(key, trackers[n].announce)

\* the inner loop: some tracker's lowercased announce URL holds key
key_matches(key, trackers) ==
    \E n \in DOMAIN trackers : str_in(key, lower(trackers[n].announce))

find_rule_set(rules, trackers) ==
    IF \E i \in DOMAIN rules : key_matches(rules[i].key, trackers)
    THEN LET first == CHOOSE i \in DOMAIN rules :
                        /\ key_matches(rules[i].key, trackers)
                        /\ \A j \in 1..(i - 1) : ~key_matches(rules[j].key, trackers)
         IN rules_getitem(rules, rules[first].key)
    ELSE rules_getitem(rules, RULES_DEFAULT)

----------------------------------------------------------------------------
(* The Transmission RPC client (transmissionrpc.Client), as the script uses it *)

\* the most RPC calls one loop iteration can issue: two remove_torrent calls,
\* each a stop and a remove
MaxFailAt == 4

present(cl, id) == \E i \in DOMAIN cl : cl[i].id = id

\* What one call does to the running operation s = [client, calls, out, exc, n]:
\* the n-th call of the step fails when n = failAt, and a failed call changes
\* nothing on the daemon. A call that names a torrent the daemon no longer has
\* fails as "NotFound", any other failure is a "RemoteError".
rpc(s, method, id, delete_data, failAt, after) ==
    LET n == s.n + 1
        answer == IF n # failAt THEN "ok"
                  ELSE IF present(s.client, id) THEN "RemoteError" ELSE "NotFound"
    IN [client |-> IF answer = "ok" THEN after ELSE s.client,
        calls  |-> Append(s.calls, [method |-> method, id |-> id,
                                    delete_data |-> delete_data, answer |-> answer]),
        out    |-> s.out,
        exc    |-> IF answer = "ok" THEN "none" ELSE answer,
        n      |-> n]

\* client.stop_torrent(torrent.hashString)
client_stop_torrent(s, id, failAt) ==
    rpc(s, "stop_torrent", id, FALSE, failAt,
        [i \in DOMAIN s.client |->
            IF s.client[i].id = id THEN [s.client[i] EXCEPT !.status = "stopped"]
            ELSE s.client[i]])

\* client.remove_torrent(torrent.hashString, delete_data=...)
client_remove_torrent(s, id, delete_data, failAt) ==
    rpc(s, "remove_torrent", id, delete_data, failAt,
        SelectSeq(s.client, LAMBDA t : t.id # id))

\* print("Removed: {} {}\nReason: {}".format(...))
print_removed(s, torrent, reason) ==
    [s EXCEPT !.out = Append(@, [id |-> torrent.id, reason |-> reason])]

----------------------------------------------------------------------------
(* remove_torrent *)

\* remove_torrent stopping whatever the status
remove_torrent_stop_always(s, torrent, reason, dry_run, failAt) ==
    LET s1 == IF ~dry_run
              THEN client_stop_torrent(s, torrent.id, failAt)
              ELSE s
        s2 == IF s1.exc = "none" /\ ~dry_run
              THEN client_remove_torrent(s1, torrent.id, FALSE, failAt)
              ELSE s1
    IN IF s2.exc = "none" THEN print_removed(s2, torrent, reason) ELSE s2

\* remove_torrent leaving delete_data to the data-deleting value
remove_torrent_delete_data(s, torrent, reason, dry_run, failAt) ==
    LET s1 == IF torrent.status # "stopped" /\ ~dry_run
              THEN client_stop_torrent(s, torrent.id, failAt)
              ELSE s
        s2 == IF s1.exc = "none" /\ ~dry_run
              THEN client_remove_torrent(s1, torrent.id, TRUE, failAt)
              ELSE s1
    IN IF s2.exc = "none" THEN print_removed(s2, torrent, reason) ELSE s2

\* remove_torrent with the dry_run test on the remove call forgotten
remove_torrent_dry_run_stops_only(s, torrent, reason, dry_run, failAt) ==
    LET s1 == IF torrent.status # "stopped" /\ ~dry_run
              THEN client_stop_torrent(s, torrent.id, failAt)
              ELSE s
        s2 == IF s1.exc = "none"
              THEN client_remove_torrent(s1, torrent.id, FALSE, failAt)
              ELSE s1
    IN IF s2.exc = "none" THEN print_removed(s2, torrent, reason) ELSE s2

remove_torrent(s, torrent, reason, dry_run, failAt) ==
    LET s1 == IF torrent.status # "stopped" /\ ~dry_run
              THEN client_stop_torrent(s, torrent.id, failAt)
              ELSE s
        s2 == IF s1.exc = "none" /\ ~dry_run
              THEN client_remove_torrent(s1, torrent.id, FALSE, failAt)
              ELSE s1
    IN IF s2.exc = "none" THEN print_removed(s2, torrent, reason) ELSE s2

----------------------------------------------------------------------------
(* The loop bodies of the three passes *)

\* line 157: the test of remove_unknown_torrents
is_unknown(torrent) ==
    torrent.error >= 2 /\ lower(torrent.errorString) \in REMOTE_MESSAGES

remove_unknown_torrents_body(s, torrent, failAt) ==
    IF is_unknown(torrent)
    THEN remove_torrent(s, torrent, "None", FALSE, failAt)
    ELSE s

\* lines 169-171: the test of remove_local_errors
is_local_error(torrent) ==
    /\ torrent.error = 3
    /\ \E errmsg \in LOCAL_ERRORS : str_in(errmsg, lower(torrent.errorString))

remove_local_errors_body(s, torrent, failAt) ==
    IF is_local_error(torrent)
    THEN remove_torrent(s, torrent, "None", FALSE, failAt)
    ELSE s

\* is_skipped with the error test forgotten
is_skipped_status_only(torrent) == torrent.status # "seeding"

\* line 185: the torrents the ratio/time pass skips
is_skipped(torrent) == torrent.error # 0 \/ torrent.status # "seeding"

clean_min_time_ratio_body(rules, s, torrent, failAt) ==
    IF is_skipped(torrent) THEN s
    ELSE
    LET found == find_rule_set(rules, torrent.trackers)
        s1 == IF torrent.ratio > found.rule.max_ratio
              THEN remove_torrent(s, torrent, "max_ratio threshold passed", FALSE, failAt)
              ELSE s
    IN IF found.exc # "none" THEN [s EXCEPT !.exc = found.exc]
       ELSE IF s1.exc # "none" THEN s1
       ELSE IF torrent.secondsSeeding > found.rule.min_time
       THEN remove_torrent(s1, torrent, "min_time threshold passed", FALSE, failAt)
       ELSE s1

----------------------------------------------------------------------------
(* The inputs *)

\* how many torrents the daemon holds at the start
NumTorrents == 2

\* how many announce URLs a direct find_rule_set call is given at most
MaxTrackers == 2

UrlApollo == <<"h", "t", "t", "p", ":", "/", "/", "A", "p", "o", "l", "l", "o", ".",
               "R", "i", "p", "/", "a">>
UrlLandof == <<"h", "t", "t", "p", ":", "/", "/", "l", "a", "n", "d", "o", "f", ".",
               "t", "v", "/", "a">>
UrlOther  == <<"h", "t", "t", "p", ":", "/", "/", "x", ".", "o", "r", "g", "/", "a">>

Urls == {UrlApollo, UrlLandof, UrlOther}

\* torrent.trackers: a list of dicts with an 'announce' entry
TrackerLists ==
    UNION { [1..n -> [announce : Urls]] : n \in 0..MaxTrackers }

ErrUnregistered == <<"U", "n", "r", "e", "g", "i", "s", "t", "e", "r", "e", "d", " ",
                     "t", "o", "r", "r", "e", "n", "t">>
ErrNoData == <<"N", "o", " ", "d", "a", "t", "a", " ", "f", "o", "u", "n", "d", "!">>

Statuses == {"stopped", "seeding", "downloading"}

\* Transmission's error codes: 0 none, 1 tracker warning, 2 tracker error,
\* 3 local error; the daemon sets errorString with the code and clears both together
NoError == [error |-> 0, errorString |-> << >>]

Errors ==
    [error : {1, 2, 3}, errorString : {ErrUnregistered}] \cup
    [error : {2, 3}, errorString : {ErrNoData}]

\* (ratio, secondsSeeding, trackers) of a seeding torrent, at and above the
\* thresholds of the default rule; at both, a landof.tv torrent is above its own
Seedings ==
    [ratio : {20, 25}, secondsSeeding : {buffered(3600 * 240), 1000000},
     trackers : {<< >>}] \cup
    {[ratio |-> 20, secondsSeeding |-> buffered(3600 * 240),
      trackers |-> <<[announce |-> UrlLandof]>>]}

\* both thresholds of the rule passed
Exceeded == [ratio |-> 25, secondsSeeding |-> 1000000, trackers |-> << >>]

Torrent(id, status, e, sd) ==
    [id |-> id, status |-> status, error |-> e.error, errorString |-> e.errorString,
     ratio |-> sd.ratio, secondsSeeding |-> sd.secondsSeeding, trackers |-> sd.trackers]

\* The torrents the daemon may hold under an id: a healthy seeding torrent with
\* any of Seedings; a healthy torrent that is not seeding, and a seeding or
\* stopped torrent in error, with the thresholds passed
Torrents(id) ==
    { Torrent(id, "seeding", NoError, sd) : sd \in Seedings } \cup
    { Torrent(id, st, NoError, Exceeded) : st \in Statuses \ {"seeding"} } \cup
    { Torrent(id, st, e, Exceeded) : st \in Statuses \ {"downloading"}, e \in Errors }

TorrentLists ==
    { l \in [1..NumTorrents -> UNION { Torrents(i) : i \in 1..NumTorrents }] :
        \A i \in 1..NumTorrents : l[i].id = i }

\* config documents load_config may find in CONFIG_FILE
ConfigFiles ==
    { \* the built-in rules, the trackers in the other order
      [RULES |-> <<BuiltinRules[2], BuiltinRules[1], BuiltinRules[3]>>],
      \* a short key declared before a longer one that holds it
      [RULES |-> << [key |-> <<"r", "i", "p", "/">>, min_time |-> 100, max_ratio |-> 5],
                    [key |-> KeyApollo, min_time |-> 200, max_ratio |-> 30],
                    [key |-> RULES_DEFAULT, min_time |-> 300, max_ratio |-> 20] >>],
      \* the default first
      [RULES |-> << [key |-> RULES_DEFAULT, min_time |-> 300, max_ratio |-> 20],
                    [key |-> KeyLandof, min_time |-> 200, max_ratio |-> 30] >>],
      \* no default
      [RULES |-> << [key |-> KeyLandof, min_time |-> 200, max_ratio |-> 30] >>] }

Passes == {"remove_unknown_torrents", "remove_local_errors", "clean_min_time_ratio"}

----------------------------------------------------------------------------
(* The state machine *)

NoResult == [exc |-> "none", rule |-> NoRule]

InitRules ==
    /\ CONFIG = BuiltinConfig
    /\ rules_arg = << >>
    /\ trackers_arg = << >>
    /\ rule_set = NoResult

InitIdle ==
    /\ op = "none"
    /\ pc = "idle"
    /\ snapshot = << >>
    /\ idx = 0
    /\ calls = << >>
    /\ out = << >>
    /\ exc = "none"
    /\ dry_run_arg = FALSE

Init ==
    /\ InitRules
    /\ InitIdle
    /\ client \in TorrentLists

\* `for torrent in client.get_torrents()`: a pass starts on the list the daemon has now
get_torrents ==
    /\ pc \in {"idle", "done"}
    /\ \E p \in Passes : op' = p
    /\ pc' = "loop"
    /\ snapshot' = client
    /\ idx' = 1
    /\ calls' = << >>
    /\ out' = << >>
    /\ exc' = "none"
    /\ UNCHANGED <<client, dry_run_arg, rule_vars>>

running == [client |-> client, calls |-> calls, out |-> out, exc |-> "none", n |-> 0]

\* one iteration has left the operation as s: go on, or let the exception out
iterated(s) ==
    /\ client' = s.client
    /\ calls' = s.calls
    /\ out' = s.out
    /\ exc' = s.exc
    /\ pc' = IF s.exc = "none" THEN "loop" ELSE "raised"
    /\ idx' = IF s.exc = "none" THEN idx + 1 ELSE idx
    /\ UNCHANGED <<op, snapshot, dry_run_arg, rule_vars>>

\* failAt names a call the iteration did issue, or none
answered(s, failAt) ==
    /\ failAt <= s.n
    /\ iterated(s)

remove_unknown_torrents ==
    /\ pc = "loop" /\ op = "remove_unknown_torrents" /\ idx <= Len(snapshot)
    /\ \E failAt \in 0..MaxFailAt :
          answered(remove_unknown_torrents_body(running, snapshot[idx], failAt), failAt)

remove_local_errors ==
    /\ pc = "loop" /\ op = "remove_local_errors" /\ idx <= Len(snapshot)
    /\ \E failAt \in 0..MaxFailAt :
          answered(remove_local_errors_body(running, snapshot[idx], failAt), failAt)

clean_min_time_ratio ==
    /\ pc = "loop" /\ op = "clean_min_time_ratio" /\ idx <= Len(snapshot)
    /\ \E failAt \in 0..MaxFailAt :
          answered(clean_min_time_ratio_body(CONFIG.RULES, running, snapshot[idx], failAt),
                   failAt)

\* the for-loop is exhausted and the pass returns
pass_returns ==
    /\ pc = "loop" /\ idx > Len(snapshot)
    /\ pc' = "done"
    /\ UNCHANGED <<client, op, snapshot, idx, calls, out, exc, dry_run_arg, rule_vars>>

Reasons == {"manual"}

\* remove_torrent(client, torrent, reason, dry_run) called on a torrent of a fresh list
call_remove_torrent ==
    /\ pc \in {"idle", "done"}
    /\ \E i \in DOMAIN client, reason \in Reasons, dry_run \in BOOLEAN, failAt \in 0..MaxFailAt :
          LET s == remove_torrent([running EXCEPT !.calls = << >>, !.out = << >>],
                                  client[i], reason, dry_run, failAt)
          IN /\ failAt <= s.n
             /\ op' = "remove_torrent"
             /\ snapshot' = client
             /\ idx' = i
             /\ dry_run_arg' = dry_run
             /\ client' = s.client
             /\ calls' = s.calls
             /\ out' = s.out
             /\ exc' = s.exc
             /\ pc' = IF s.exc = "none" THEN "done" ELSE "raised"
    /\ UNCHANGED rule_vars

Next ==
    \/ get_torrents
    \/ remove_unknown_torrents
    \/ remove_local_errors
    \/ clean_min_time_ratio
    \/ pass_returns
    \/ call_remove_torrent

Spec == Init /\ [][Next]_vars

----------------------------------------------------------------------------
(* The rule matcher on its own: load_config, then find_rule_set on any trackers *)

InitMatcher ==
    /\ InitRules
    /\ InitIdle
    /\ client = << >>

\* load_config(): CONFIG = load(open(path)) when the file exists
load_config ==
    /\ \E doc \in ConfigFiles : CONFIG' = doc
    /\ UNCHANGED <<rules_arg, trackers_arg, rule_set, sweep_vars>>

call_find_rule_set ==
    /\ \E trackers \in TrackerLists :
          /\ rules_arg' = CONFIG.RULES
          /\ trackers_arg' = trackers
          /\ rule_set' = find_rule_set(CONFIG.RULES, trackers)
    /\ UNCHANGED <<CONFIG, sweep_vars>>

NextMatcher ==
    \/ load_config
    \/ call_find_rule_set

SpecMatcher == InitMatcher /\ [][NextMatcher]_vars

----------------------------------------------------------------------------
(* The properties *)

\* the torrent object the running operation holds for id
snap(id) == snapshot[CHOOSE i \in DOMAIN snapshot : snapshot[i].id = id]

in_pass == op \in Passes
pass_over == in_pass /\ pc \in {"done", "raised"}

removes_of(id) ==
    {j \in DOMAIN calls : calls[j].method = "remove_torrent" /\ calls[j].id = id}
stops_of(id) ==
    {j \in DOMAIN calls : calls[j].method = "stop_torrent" /\ calls[j].id = id}
lines_of(id) == {j \in DOMAIN out : out[j].id = id}

\* the three removal rules, as the specification words them
unregistered_rule(t) ==
    t.error >= 2 /\ lower(t.errorString) \in REMOTE_MESSAGES
local_error_rule(t) ==
    t.error = 3 /\ \E phrase \in LOCAL_ERRORS : str_in(phrase, lower(t.errorString))
threshold_rule(t) ==
    /\ t.error = 0
    /\ t.status = "seeding"
    /\ LET policy == find_rule_set(CONFIG.RULES, t.trackers).rule
       IN t.ratio > policy.max_ratio \/ t.secondsSeeding > policy.min_time
rule_of_pass(t) ==
    CASE op = "remove_unknown_torrents" -> unregistered_rule(t)
      [] op = "remove_local_errors"     -> local_error_rule(t)
      [] op = "clean_min_time_ratio"    -> threshold_rule(t)
      [] OTHER -> FALSE

\* C1: within one pass at most one remove call is issued for any torrent id, and
\* a torrent above both thresholds is retired once, with the ratio reason.
C1_OneRemovePerTorrent ==
    in_pass =>
        \A i \in DOMAIN snapshot :
            LET id == snapshot[i].id
            IN /\ Cardinality(removes_of(id)) <= 1
               /\ Cardinality(lines_of(id)) <= 1
               /\ \A j \in lines_of(id) :
                     (op = "clean_min_time_ratio" /\ snapshot[i].ratio >
                         find_rule_set(CONFIG.RULES, snapshot[i].trackers).rule.max_ratio)
                     => out[j].reason = "max_ratio threshold passed"

\* C2: without dry_run, a stop call is issued exactly for a torrent whose status
\* is not "stopped", and it comes right before the remove call for that
\* torrent; a stopped torrent gets the remove call alone.
C2_StopBeforeRemove ==
    /\ \A j \in DOMAIN calls :
          LET c == calls[j]
              t == snap(c.id)
          IN /\ c.method = "stop_torrent" =>
                   /\ t.status # "stopped"
                   /\ c.answer = "ok" =>
                         /\ j < Len(calls)
                         /\ calls[j + 1].method = "remove_torrent"
                         /\ calls[j + 1].id = c.id
             /\ c.method = "remove_torrent" =>
                   IF t.status # "stopped"
                   THEN /\ j > 1
                        /\ calls[j - 1].method = "stop_torrent"
                        /\ calls[j - 1].id = c.id
                        /\ calls[j - 1].answer = "ok"
                   ELSE stops_of(c.id) = {}
    /\ (in_pass \/ (op = "remove_torrent" /\ ~dry_run_arg)) =>
          \A j \in DOMAIN out :
              /\ removes_of(out[j].id) # {}
              /\ snap(out[j].id).status # "stopped" => stops_of(out[j].id) # {}

\* C2's case: one pass has retired a stopped torrent with a lone remove and a
\* seeding one with a stop and then a remove
C2_Witness ==
    /\ in_pass
    /\ \E i, j \in DOMAIN snapshot :
          /\ snapshot[i].status = "stopped"
          /\ removes_of(snapshot[i].id) # {} /\ stops_of(snapshot[i].id) = {}
          /\ snapshot[j].status = "seeding"
          /\ removes_of(snapshot[j].id) # {} /\ stops_of(snapshot[j].id) # {}

\* C3: every remove call issued to the client carries delete_data = False.
C3_NeverDeletesData ==
    \A j \in DOMAIN calls :
        calls[j].method = "remove_torrent" => calls[j].delete_data = FALSE

\* C3's case: a remove call was answered and the torrent is gone from the daemon
C3_Witness ==
    \E j \in DOMAIN calls :
        /\ calls[j].method = "remove_torrent"
        /\ calls[j].answer = "ok"
        /\ ~present(client, calls[j].id)

\* C4: remove_torrent with dry_run true issues no stop and no remove call, leaves
\* the daemon's torrents and their statuses as they were, whatever the status of
\* the torrent, and prints exactly one line, for that torrent.
C4_DryRunIssuesNoCalls ==
    (op = "remove_torrent" /\ dry_run_arg) =>
        /\ calls = << >>
        /\ client = snapshot
        /\ exc = "none" /\ pc = "done"
        /\ Len(out) = 1
        /\ out[1].id = snapshot[idx].id

\* C4's case: a dry run on a torrent that is not stopped has printed its line
C4_Witness ==
    /\ op = "remove_torrent" /\ dry_run_arg
    /\ snapshot[idx].status = "seeding"
    /\ Len(out) = 1

\* C5: when a stop or remove call fails for one torrent, the pass still
\* retires every other qualifying torrent of its list: once the pass is over,
\* a qualifying torrent none of whose own calls failed is gone from the daemon.
C5_FailureAbortsOneTorrentOnly ==
    pass_over =>
        \A i \in DOMAIN snapshot :
            LET t == snapshot[i]
            IN (/\ rule_of_pass(t)
                /\ \A j \in DOMAIN calls : calls[j].id = t.id => calls[j].answer = "ok")
               => ~present(client, t.id)

\* C6: a stop or remove answered "torrent not found" counts as success:
\* remove_torrent completes and no exception leaves the operation.
C6_NotFoundIsSuccess ==
    (\E j \in DOMAIN calls : calls[j].answer = "NotFound") =>
        exc = "none" /\ pc # "raised"

\* C7: a pass issues a stop or remove call only for a torrent that one of the
\* three rules covers; the ratio/time pass never touches a torrent with a
\* non-zero error code or one that is not seeding.
C7_OnlyQualifyingTorrents ==
    in_pass =>
        \A j \in DOMAIN calls :
            LET t == snap(calls[j].id)
            IN /\ unregistered_rule(t) \/ local_error_rule(t) \/ threshold_rule(t)
               /\ op = "clean_min_time_ratio" => t.error = 0 /\ t.status = "seeding"

\* C7's case: the ratio/time pass is over, it has retired a torrent, and a
\* torrent in error that seeds above both thresholds is still with the daemon
C7_Witness ==
    /\ op = "clean_min_time_ratio" /\ pc = "done"
    /\ calls # << >>
    /\ \E i \in DOMAIN snapshot :
          /\ snapshot[i].error # 0 /\ snapshot[i].status = "seeding"
          /\ snapshot[i].ratio = 25
          /\ present(client, snapshot[i].id)

has_default(rules) == \E i \in DOMAIN rules : rules[i].key = RULES_DEFAULT
policy(entry) == [min_time |-> entry.min_time, max_ratio |-> entry.max_ratio]
\* the entries of rules whose key is a tracker key found in an announce URL
matching(rules, trackers) ==
    {i \in DOMAIN rules :
        /\ rules[i].key # RULES_DEFAULT
        /\ \E n \in DOMAIN trackers :
              str_in(rules[i].key, lower(trackers[n].announce))}
called == rules_arg # << >>

\* C8: with the default key in the rules, find_rule_set does not fail; it
\* returns the policy of a tracker key found in a lowercased announce URL when
\* there is one, and the default policy when there is none.
C8_FindRuleSet ==
    (called /\ has_default(rules_arg)) =>
        /\ rule_set.exc = "none"
        /\ IF matching(rules_arg, trackers_arg) # {}
           THEN \E i \in matching(rules_arg, trackers_arg) :
                    rule_set.rule = policy(rules_arg[i])
           ELSE \E i \in DOMAIN rules_arg :
                    /\ rules_arg[i].key = RULES_DEFAULT
                    /\ rule_set.rule = policy(rules_arg[i])

\* C8's case: the built-in rules, an announce URL in mixed case among two, and
\* the policy of apollo.rip/ returned
C8_Witness ==
    /\ rules_arg = BuiltinRules
    /\ trackers_arg = <<[announce |-> UrlOther], [announce |-> UrlApollo]>>
    /\ rule_set = [exc |-> "none", rule |-> policy(BuiltinRules[1])]

\* C9: the printed line carries the reason of the rule that fired: a torrent
\* with error 2 and "unregistered torrent" is reported as UnregisteredByTracker,
\* one with error 3 and "no data found" in its message as LocalDataError.
C9_ReasonNamesTheRule ==
    in_pass =>
        \A j \in DOMAIN out :
            LET t == snap(out[j].id)
            IN /\ (t.error = 2 /\ lower(t.errorString) \in REMOTE_MESSAGES)
                    => out[j].reason = "UnregisteredByTracker"
               /\ (t.error = 3 /\ local_error_rule(t) /\ op = "remove_local_errors")
                    => out[j].reason = "LocalDataError"

\* C10: when several tracker keys are found in the announce URLs, the longest
\* one decides, and among the longest the one declared first.
C10_LongestKeyWins ==
    (called /\ has_default(rules_arg) /\ matching(rules_arg, trackers_arg) # {}) =>
        LET m == matching(rules_arg, trackers_arg)
            best == CHOOSE i \in m :
                        \A k \in m : \/ Len(rules_arg[k].key) < Len(rules_arg[i].key)
                                     \/ /\ Len(rules_arg[k].key) = Len(rules_arg[i].key)
                                        /\ i <= k
        IN rule_set.rule = policy(rules_arg[best])

====
